---- MODULE Spec2Model ----
(***************************************************************************)
(* Model of ultra_search's durable task queue (core/task_queue.py) and of  *)
(* the registry lookups its worker performs (core/registry.py).            *)
(*                                                                         *)
(* The SQLite table `tasks` is the variable `tasks`; every sqlite3         *)
(* transaction of the source is one atomic step.  A worker process         *)
(* (execute_task_in_background) and a cancel_task call are sequences of    *)
(* such steps, so other processes interleave between their transactions.   *)
(*                                                                         *)
(* Spec is the queue with its workers; StoreSpec is the store called        *)
(* directly, over several rows and without workers; ExecSpec is the        *)
(* Executor (core/executor.py) running one execute_batch call on an asyncio *)
(* event loop, with the registry module it resolves its catalog from.      *)
(*                                                                         *)
(* Environment assumptions: the store itself does not fail (no sqlite      *)
(* OperationalError), and a tool output, being a pydantic model,           *)
(* serialises.  datetime.utcnow() reads the variable `now`, which the      *)
(* environment advances with Tick.                                         *)
(***************************************************************************)
EXTENDS Integers, Sequences, FiniteSets, TLC

(* ---------------------------- bounds ----------------------------------- *)
MaxTasks == 1
MaxWorkers == 2
MaxCancels == 1
MaxClock == 2
MaxRows == 2
MaxBatch == 3
MaxConcurrent == 2
MaxLimit == 2

TaskIds == 1..MaxTasks
WorkerIds == 1..MaxWorkers
CancelIds == 1..MaxCancels
RowIds == 1..MaxRows
BatchSizes == 0..MaxBatch
Limits == 1..MaxLimit
ConcurrencyLimits == 0..MaxConcurrent

(* ---------------------------- values ----------------------------------- *)
\* Python's None, per column type
NULL == "None"
NoTime == 0
NoProgress == -1
NoError == <<>>
NoResult == <<>>
NoTaskId == 0
IntegrityError == -1
NoException == [kind |-> NULL, msg |-> <<>>]
NoOutput == [content |-> NULL, provider |-> NULL]
NoRegistry == <<>>
NoInput == {<<"unset", NULL>>}

PENDING == "pending"
RUNNING == "running"
COMPLETED == "completed"
FAILED == "failed"
CANCELLED == "cancelled"

TaskStatus == {PENDING, RUNNING, COMPLETED, FAILED, CANCELLED}

\* the status argument of list_tasks: omitted, or a TaskStatus
StatusFilters == {NULL} \cup TaskStatus

\* what each domain package registers when it is imported
DomainModules ==
    [d \in {"deep_research", "reviews"} |->
        IF d = "deep_research"
        THEN {"deep_research", "quick_answer", "start_deep_research_async"}
        ELSE {"search_google_reviews"}]

Domains == DOMAIN DomainModules

\* Settings.get_enabled_domains() under the default settings; web_search is
\* enabled but is not one of the two domain packages taken into the model
EnabledDomains == {"web_search", "deep_research"}

ToolNames == {"deep_research", "search_google_reviews"}
Queries == {"hi"}
OutputFiles == {NULL}
\* the arguments of direct calls on the store
StoreOutputFiles == {NULL, "report.md"}
Providers == {NULL, "openai"}
Durations == {NULL}
\* an input payload is the set of the fields it carries, each with its value
Payloads == {{<<"query", q>>} : q \in Queries} \cup {{}}
\* what a tool invocation can return: content and producing provider
Outputs == {[content |-> "report", provider |-> "openai"]}

\* Settings.max_concurrent_requests
max_concurrent_requests == 10

\* the domain packages in the order pkgutil.iter_modules lists them
DomainOrder == <<"deep_research", "reviews">>

\* what importing each domain package does in this installation: it loads,
\* raises ImportError, or raises something else; unknown until the first import
ImportOutcomes == [Domains -> {"ok", "ImportError", "SyntaxError"}]
NotImported == [d \in Domains |-> "unknown"]

\* the tool names and requests passed to the Executor
ExecToolNames == ToolNames \cup {"no_such_tool"}
Requests == [tool_name : ExecToolNames, input_data : Payloads]

\* the arguments of search_parallel: a query, and the tool list when given
SearchQueries == {"hi", "ho"}
SearchToolNames == ExecToolNames \cup {"quick_answer"}
SearchToolLists == UNION {[1..n -> SearchToolNames] : n \in BatchSizes}

VARIABLES tasks, now, last_create, workers, cancels

\* the registry module of the process that holds the Executor, the Executor's
\* cached catalog, and the execute_batch call in progress
VARIABLES TOOL_REGISTRY, discovered, sys_modules, import_outcome,
          executor_tools, batch, coros

\* the last call made directly on the registry, as its caller sees it
VARIABLES last_call

\* the last list_tasks call, as its caller sees it
VARIABLES last_list

\* the arguments of the last search_parallel call
VARIABLES last_search

queue_vars == <<tasks, now, last_create, workers, cancels>>
exec_vars == <<TOOL_REGISTRY, discovered, sys_modules, import_outcome,
               executor_tools, batch, coros, last_call, last_list, last_search>>

vars == <<tasks, now, last_create, workers, cancels,
          TOOL_REGISTRY, discovered, sys_modules, import_outcome,
          executor_tools, batch, coros, last_call, last_list, last_search>>

(* ------------------------- pure functions ------------------------------ *)
\* json.dumps / json.loads / BaseModel.model_dump_json
json_dumps(x) == <<"json", x>>
json_loads(s) == s[2]
model_dump_json(r) == <<"json", r>>

\* mutant: the message alone, without the exception kind
error_msg_without_kind(e) == <<e.msg>>

\* f"{type(e).__name__}: {str(e)}"
error_msg(e) == <<e.kind, ": ", e.msg>>

\* mutant: the message does not name the tool
ToolNotFound_unnamed(tool_name) ==
    [kind |-> "ValueError", msg |-> <<"Tool not found">>]

\* ValueError(f"Tool {task.tool_name} not found")
ToolNotFound(tool_name) ==
    [kind |-> "ValueError", msg |-> <<"Tool ", tool_name, " not found">>]

\* tool.input_model(**input_data): the payload must carry the required field
input_model_ok(input_data) == \E field \in input_data : field[1] = "query"

\* the registry left by importing every domain module that does not fail
ImportModules(failing) == [d \in Domains \ failing |-> DomainModules[d]]

\* mutant: the merge ignores the domains asked for
get_tools_unfiltered(registry, domains) ==
    UNION {registry[d] : d \in DOMAIN registry}

get_tools(registry, domains) ==
    UNION {registry[d] : d \in (domains \cap DOMAIN registry)}

\* datetime.isoformat() of a clock value (the clock counts half seconds): the
\* fixed-width fields up to the seconds, and the microseconds only when they
\* are not zero
isoformat(t) ==
    LET sec == (t + 1) \div 2
        usec == ((t + 1) % 2) * 500000
    IN IF usec = 0 THEN <<sec>> ELSE <<sec, usec>>

\* datetime.fromisoformat
fromisoformat(text) ==
    IF Len(text) = 1 THEN 2 * text[1] - 1
    ELSE 2 * text[1] - 1 + text[2] \div 500000

\* the order of two TEXT values of the created_at column: character by
\* character, a prefix before its extensions
text_le(a, b) ==
    \/ a[1] < b[1]
    \/ /\ a[1] = b[1]
       /\ \/ Len(a) = 1
          \/ Len(b) = 2 /\ a[2] <= b[2]

\* the TaskInfo built from a row
TaskInfo(row) ==
    [row EXCEPT !.created_at = fromisoformat(isoformat(row.created_at)),
                !.started_at = IF row.started_at # NoTime
                               THEN fromisoformat(isoformat(row.started_at))
                               ELSE NoTime,
                !.completed_at = IF row.completed_at # NoTime
                                 THEN fromisoformat(isoformat(row.completed_at))
                                 ELSE NoTime]

\* the ways of putting the ids of a set in a sequence
Orderings(ids) ==
    {s \in [1..Cardinality(ids) -> ids] :
        \A i, j \in 1..Cardinality(ids) : i # j => s[i] # s[j]}

\* mutant: ORDER BY created_at ASC
list_tasks_oldest_first(store, status, limit) ==
    LET matching == {t \in DOMAIN store : status # NULL => store[t].status = status}
        sorted == {s \in Orderings(matching) :
                      \A i, j \in DOMAIN s :
                          i < j => text_le(isoformat(store[s[i]].created_at),
                                           isoformat(store[s[j]].created_at))}
        n == IF limit < Cardinality(matching) THEN limit ELSE Cardinality(matching)
    IN {[i \in 1..n |-> TaskInfo(store[s[i]])] : s \in sorted}

\* SELECT * FROM tasks [WHERE status = ?] ORDER BY created_at DESC LIMIT ?:
\* the lists the call can return (rows of equal created_at come in any order)
list_tasks(store, status, limit) ==
    LET matching == {t \in DOMAIN store : status # NULL => store[t].status = status}
        sorted == {s \in Orderings(matching) :
                      \A i, j \in DOMAIN s :
                          i < j => text_le(isoformat(store[s[j]].created_at),
                                           isoformat(store[s[i]].created_at))}
        n == IF limit < Cardinality(matching) THEN limit ELSE Cardinality(matching)
    IN {[i \in 1..n |-> TaskInfo(store[s[i]])] : s \in sorted}

\* a list_tasks call and what it returned
ListCall(status, limit, ret) == [status |-> status, limit |-> limit, ret |-> ret]
NoListCall == ListCall(NULL, 0, <<>>)

\* the characters of a tool name
Spelling(name) ==
    CASE name = "deep_research" ->
            <<"d", "e", "e", "p", "_", "r", "e", "s", "e", "a", "r", "c", "h">>
      [] name = "quick_answer" ->
            <<"q", "u", "i", "c", "k", "_", "a", "n", "s", "w", "e", "r">>
      [] name = "start_deep_research_async" ->
            <<"s", "t", "a", "r", "t", "_", "d", "e", "e", "p", "_", "r", "e", "s", "e",
              "a", "r", "c", "h", "_", "a", "s", "y", "n", "c">>
      [] name = "search_google_reviews" ->
            <<"s", "e", "a", "r", "c", "h", "_", "g", "o", "o", "g", "l", "e", "_", "r",
              "e", "v", "i", "e", "w", "s">>
      [] name = "no_such_tool" ->
            <<"n", "o", "_", "s", "u", "c", "h", "_", "t", "o", "o", "l">>

\* str.lower(), character by character
LowerCase ==
    [A |-> "a", B |-> "b", C |-> "c", D |-> "d", E |-> "e", F |-> "f", G |-> "g",
     H |-> "h", I |-> "i", J |-> "j", K |-> "k", L |-> "l", M |-> "m", N |-> "n",
     O |-> "o", P |-> "p", Q |-> "q", R |-> "r", S |-> "s", T |-> "t", U |-> "u",
     V |-> "v", W |-> "w", X |-> "x", Y |-> "y", Z |-> "z"]
lower(chars) ==
    [i \in DOMAIN chars |->
        IF chars[i] \in DOMAIN LowerCase THEN LowerCase[chars[i]] ELSE chars[i]]

\* sub in text
contains(sub, text) ==
    \E k \in 0..(Len(text) - Len(sub)) :
        \A i \in DOMAIN sub : text[k + i] = sub[i]

\* mutant: every tool of the catalog is taken
search_tools_unfiltered(catalog) == catalog

\* [name for name in self.tools if "search" in name.lower()]
search_tools(catalog) ==
    {name \in catalog :
        contains(<<"s", "e", "a", "r", "c", "h">>, lower(Spelling(name)))}

\* a search_parallel call: its query, and its tool list when one was given
SearchCall(query, given, tools) == [query |-> query, given |-> given, tools |-> tools]
NoSearchCall == SearchCall(NULL, FALSE, <<>>)

\* SELECT * FROM tasks WHERE task_id = ?: the row, or no row
get_task(store, task_id) == {store[i] : i \in {task_id} \cap DOMAIN store}

\* mutant: completed_at is stamped for COMPLETED and FAILED only
update_row_cancel_unstamped(row, status, progress, error, t) ==
    LET r1 == [row EXCEPT !.status = status]
        r2 == IF status = RUNNING /\ progress = NoProgress
              THEN [r1 EXCEPT !.started_at = t] ELSE r1
        r3 == IF status \in {COMPLETED, FAILED}
              THEN [r2 EXCEPT !.completed_at = t] ELSE r2
        r4 == IF progress # NoProgress THEN [r3 EXCEPT !.progress = progress] ELSE r3
        r5 == IF error # NoError THEN [r4 EXCEPT !.error = error] ELSE r4
    IN r5

update_row(row, status, progress, error, t) ==
    LET r1 == [row EXCEPT !.status = status]
        r2 == IF status = RUNNING /\ progress = NoProgress
              THEN [r1 EXCEPT !.started_at = t] ELSE r1
        r3 == IF status \in {COMPLETED, FAILED, CANCELLED}
              THEN [r2 EXCEPT !.completed_at = t] ELSE r2
        r4 == IF progress # NoProgress THEN [r3 EXCEPT !.progress = progress] ELSE r3
        r5 == IF error # NoError THEN [r4 EXCEPT !.error = error] ELSE r4
    IN r5

\* UPDATE tasks SET ... WHERE task_id = ? (no row: nothing changes)
update_task_status(store, task_id, status, progress, error, t) ==
    IF task_id \in DOMAIN store
    THEN [store EXCEPT ![task_id] = update_row(@, status, progress, error, t)]
    ELSE store

\* mutant: the UPDATE sets the provider column only
save_task_result_provider_only(store, task_id, result, provider) ==
    IF task_id \in DOMAIN store
    THEN [store EXCEPT ![task_id] = [@ EXCEPT !.provider = provider]]
    ELSE store

\* UPDATE tasks SET result_json = ?, provider = ? WHERE task_id = ?
save_task_result(store, task_id, result, provider) ==
    IF task_id \in DOMAIN store
    THEN [store EXCEPT ![task_id] =
            [@ EXCEPT !.result_json = model_dump_json(result),
                      !.provider = provider]]
    ELSE store

\* mutant: the INSERT leaves the output_file column out
NewRow_without_output_file(task_id, tool_name, query, input_data, output_file, estimated_duration, t) ==
    [task_id |-> task_id, tool_name |-> tool_name, query |-> query,
     status |-> PENDING, created_at |-> t, started_at |-> NoTime,
     completed_at |-> NoTime, progress |-> 0, output_file |-> NULL,
     error |-> NoError, result_json |-> NoResult, provider |-> NULL,
     estimated_duration_seconds |-> estimated_duration,
     input_json |-> json_dumps(input_data)]

NewRow(task_id, tool_name, query, input_data, output_file, estimated_duration, t) ==
    [task_id |-> task_id, tool_name |-> tool_name, query |-> query,
     status |-> PENDING, created_at |-> t, started_at |-> NoTime,
     completed_at |-> NoTime, progress |-> 0, output_file |-> output_file,
     error |-> NoError, result_json |-> NoResult, provider |-> NULL,
     estimated_duration_seconds |-> estimated_duration,
     input_json |-> json_dumps(input_data)]

\* a create_task call as its caller sees it: the arguments passed and the
\* task id returned (IntegrityError: the call raised)
CreateCall(ret, tool_name, query, output_file) ==
    [ret |-> ret, tool_name |-> tool_name, query |-> query, output_file |-> output_file]

NoCreateCall == CreateCall(NoTaskId, NULL, NULL, NULL)

IdleWorker ==
    [pc |-> "idle", task_id |-> NoTaskId, tool_name |-> NULL,
     registry |-> NoRegistry, input_data |-> NoInput, result |-> NoOutput,
     exc |-> NoException, invoked |-> 0, claimed |-> FALSE]

IdleCancel == [pc |-> "idle", task_id |-> NoTaskId, ret |-> FALSE]

\* get_tools(domains=None)
DomainsOmitted == {NULL}

\* the domain names passed to the registry, one of them registered by no package
RegistryDomains == Domains \cup {"web_search"}
LookupArgs == {DomainsOmitted} \cup SUBSET RegistryDomains

RegistryCall(op, domains, ret, exc) ==
    [op |-> op, domains |-> domains, ret |-> ret, exc |-> exc]

NoRegistryCall == RegistryCall(NULL, {}, {}, NoException)

\* Executor._tools: None until the first access of Executor.tools
NoTools == [resolved |-> FALSE, names |-> {}]

\* execution_time_ms is 0.0 unless the caller passes it
ExecutionResult(tool_name, success, result, error) ==
    [tool_name |-> tool_name, success |-> success, result |-> result, error |-> error,
     execution_time_ms |-> 0]

\* ExecutionResult(..., execution_time_ms=elapsed_ms)
WithTime(res, elapsed) == [res EXCEPT !.execution_time_ms = elapsed]

\* (time.perf_counter() - start_time) * 1000
elapsed_ms(start_time, t) == (t - start_time) * 1000

RECURSIVE SumOfTimes(_)
SumOfTimes(results) ==
    IF results = <<>> THEN 0
    ELSE results[1].execution_time_ms
            + SumOfTimes([i \in 1..(Len(results) - 1) |-> results[i + 1]])

\* mutant: the total is the sum of the per-request times
BatchResult_summed(results, start_time, t) ==
    [results |-> results, total_time_ms |-> SumOfTimes(results)]

\* BatchResult(results=list(results), total_time_ms=total_time_ms)
BatchResult(results, start_time, t) ==
    [results |-> results, total_time_ms |-> elapsed_ms(start_time, t)]

NoExecutionResult == ExecutionResult(NULL, FALSE, NoOutput, NoError)

\* no execute_batch call yet
IdleBatch ==
    [state |-> "idle", requests |-> <<>>, max_concurrent |-> 0, semaphore |-> 0,
     waiters |-> <<>>, start_time |-> NoTime, results |-> <<>>, total_time_ms |-> 0]

\* a limited_execute coroutine that gather has wrapped in a task
NewCoro ==
    [pc |-> "created", start_time |-> NoTime, result |-> NoExecutionResult,
     exc |-> NoException, constructed |-> 0, invoked |-> 0]

(* ------------------------------ Init ----------------------------------- *)
Init ==
    /\ tasks = <<>>
    /\ now = 1
    /\ last_create = NoCreateCall
    /\ workers = [w \in WorkerIds |-> IdleWorker]
    /\ cancels = [c \in CancelIds |-> IdleCancel]
    /\ TOOL_REGISTRY = <<>>
    /\ discovered = FALSE
    /\ sys_modules = {}
    /\ import_outcome = NotImported
    /\ executor_tools = NoTools
    /\ batch = IdleBatch
    /\ coros = <<>>
    /\ last_call = NoRegistryCall
    /\ last_list = NoListCall
    /\ last_search = NoSearchCall

(* ----------------------------- actions --------------------------------- *)
\* the wall clock advances
Tick ==
    /\ now < MaxClock
    /\ now' = now + 1
    /\ UNCHANGED <<tasks, last_create, workers, cancels>>
    /\ UNCHANGED exec_vars

\* mutant: INSERT OR REPLACE, a colliding id overwrites the row
create_task_replace(task_id, tool_name, query, input_data, output_file, estimated_duration) ==
    /\ last_create' = CreateCall(task_id, tool_name, query, output_file)
    /\ tasks' = [i \in DOMAIN tasks \cup {task_id} |->
                  IF i = task_id
                  THEN NewRow(task_id, tool_name, query, input_data,
                              output_file, estimated_duration, now)
                  ELSE tasks[i]]
    /\ UNCHANGED <<now, workers, cancels>>
    /\ UNCHANGED exec_vars

\* TaskQueue.create_task: uuid4 picks the id, either one not in the table
\* (ids are handed out in order) or, by collision, one that is; the PRIMARY
\* KEY rejects a duplicate with sqlite3.IntegrityError
create_task(task_id, tool_name, query, input_data, output_file, estimated_duration) ==
    /\ IF task_id \in DOMAIN tasks
       THEN /\ last_create' = CreateCall(IntegrityError, tool_name, query, output_file)
            /\ tasks' = tasks
       ELSE /\ last_create' = CreateCall(task_id, tool_name, query, output_file)
            /\ tasks' = [i \in DOMAIN tasks \cup {task_id} |->
                          IF i = task_id
                          THEN NewRow(task_id, tool_name, query, input_data,
                                      output_file, estimated_duration, now)
                          ELSE tasks[i]]
    /\ UNCHANGED <<now, workers, cancels>>
    /\ UNCHANGED exec_vars

CreateTask ==
    \E task_id \in (DOMAIN tasks \cup {Cardinality(DOMAIN tasks) + 1}) \cap TaskIds,
       tool_name \in ToolNames, query \in Queries,
       input_data \in Payloads, output_file \in OutputFiles,
       estimated_duration \in Durations :
        create_task(task_id, tool_name, query, input_data, output_file,
                    estimated_duration)

\* start_background_task: spawn a detached process running
\* execute_task_in_background(task_id); nothing is checked about the task
start_background_task(task_id) ==
    /\ \E w \in WorkerIds :
        /\ workers[w].pc = "idle"
        /\ \A v \in WorkerIds : v < w => workers[v].pc # "idle"
        /\ workers' = [workers EXCEPT ![w] =
                          [IdleWorker EXCEPT !.pc = "get_task", !.task_id = task_id]]
    /\ UNCHANGED <<tasks, now, last_create, cancels>>
    /\ UNCHANGED exec_vars

StartBackgroundTask == \E task_id \in TaskIds : start_background_task(task_id)

\* task = queue.get_task(task_id); if not task: return
worker_get_task(w) ==
    /\ workers[w].pc = "get_task"
    /\ LET found == get_task(tasks, workers[w].task_id)
       IN workers' = [workers EXCEPT ![w] =
                        IF found = {}
                        THEN [@ EXCEPT !.pc = "done"]
                        ELSE [@ EXCEPT !.pc = "discover",
                                       !.tool_name = (CHOOSE task \in found : TRUE).tool_name]]
    /\ UNCHANGED <<tasks, now, last_create, cancels>>
    /\ UNCHANGED exec_vars

\* discover_domains() in the worker process: a domain module whose import
\* raises ImportError is skipped, any other exception leaves discover_domains
worker_discover(w) ==
    /\ workers[w].pc = "discover"
    /\ \E outcome \in [Domains -> {"ok", "ImportError", "SyntaxError"}] :
        LET failing == {d \in Domains : outcome[d] = "ImportError"}
            broken == {d \in Domains : outcome[d] = "SyntaxError"}
        IN workers' = [workers EXCEPT ![w] =
                         IF broken # {}
                         THEN [@ EXCEPT !.pc = "except",
                                        !.exc = [kind |-> "SyntaxError",
                                                 msg |-> <<"invalid syntax">>]]
                         ELSE [@ EXCEPT !.pc = "claim",
                                        !.registry = ImportModules(failing)]]
    /\ UNCHANGED <<tasks, now, last_create, cancels>>
    /\ UNCHANGED exec_vars

\* queue.update_task_status(task_id, TaskStatus.RUNNING, progress=10)
worker_claim(w) ==
    /\ workers[w].pc = "claim"
    /\ tasks' = update_task_status(tasks, workers[w].task_id, RUNNING, 10, NoError, now)
    /\ workers' = [workers EXCEPT ![w] = [@ EXCEPT !.pc = "lookup", !.claimed = TRUE]]
    /\ UNCHANGED <<now, last_create, cancels>>
    /\ UNCHANGED exec_vars

\* tools = get_tools(settings.get_enabled_domains()); the membership test;
\* SELECT input_json and json.loads
worker_lookup(w) ==
    /\ workers[w].pc = "lookup"
    /\ LET tools == get_tools(workers[w].registry, EnabledDomains)
       IN workers' = [workers EXCEPT ![w] =
                        IF workers[w].tool_name \notin tools
                        THEN [@ EXCEPT !.pc = "except",
                                       !.registry = NoRegistry,
                                       !.exc = ToolNotFound(workers[w].tool_name)]
                        ELSE [@ EXCEPT !.pc = "progress30",
                                       !.registry = NoRegistry,
                                       !.input_data =
                                           json_loads(tasks[workers[w].task_id].input_json)]]
    /\ UNCHANGED <<tasks, now, last_create, cancels>>
    /\ UNCHANGED exec_vars

\* mutant: a worker that finds its task cancelled stops without writing
worker_progress30_stops_if_cancelled(w) ==
    /\ workers[w].pc = "progress30"
    /\ IF \E task \in get_task(tasks, workers[w].task_id) : task.status = CANCELLED
       THEN /\ tasks' = tasks
            /\ workers' = [workers EXCEPT ![w] = [@ EXCEPT !.pc = "done"]]
       ELSE /\ tasks' = update_task_status(tasks, workers[w].task_id, RUNNING, 30,
                                           NoError, now)
            /\ workers' = [workers EXCEPT ![w] = [@ EXCEPT !.pc = "validate"]]
    /\ UNCHANGED <<now, last_create, cancels>>
    /\ UNCHANGED exec_vars

\* queue.update_task_status(task_id, TaskStatus.RUNNING, progress=30)
worker_progress30(w) ==
    /\ workers[w].pc = "progress30"
    /\ tasks' = update_task_status(tasks, workers[w].task_id, RUNNING, 30, NoError, now)
    /\ workers' = [workers EXCEPT ![w] = [@ EXCEPT !.pc = "validate"]]
    /\ UNCHANGED <<now, last_create, cancels>>
    /\ UNCHANGED exec_vars

\* validated_input = tool.input_model(**input_data), then tool.execute starts
worker_validate(w) ==
    /\ workers[w].pc = "validate"
    /\ workers' = [workers EXCEPT ![w] =
                     IF input_model_ok(workers[w].input_data)
                     THEN [@ EXCEPT !.pc = "execute", !.input_data = NoInput,
                                    !.invoked = @ + 1]
                     ELSE [@ EXCEPT !.pc = "except", !.input_data = NoInput,
                                    !.exc = [kind |-> "ValidationError",
                                             msg |-> <<"query: Field required">>]]]
    /\ UNCHANGED <<tasks, now, last_create, cancels>>
    /\ UNCHANGED exec_vars

\* asyncio.run(tool.execute(validated_input)) returns an output or raises
worker_execute(w) ==
    /\ workers[w].pc = "execute"
    /\ \/ \E r \in Outputs :
            workers' = [workers EXCEPT ![w] = [@ EXCEPT !.pc = "progress90", !.result = r]]
       \/ workers' = [workers EXCEPT ![w] =
                        [@ EXCEPT !.pc = "except",
                                  !.exc = [kind |-> "RuntimeError",
                                           msg |-> <<"provider failed">>]]]
    /\ UNCHANGED <<tasks, now, last_create, cancels>>
    /\ UNCHANGED exec_vars

\* mutant: the checkpoint after the invocation reports less than the one before it
worker_progress90_low(w) ==
    /\ workers[w].pc = "progress90"
    /\ tasks' = update_task_status(tasks, workers[w].task_id, RUNNING, 20, NoError, now)
    /\ workers' = [workers EXCEPT ![w] = [@ EXCEPT !.pc = "save"]]
    /\ UNCHANGED <<now, last_create, cancels>>
    /\ UNCHANGED exec_vars

\* queue.update_task_status(task_id, TaskStatus.RUNNING, progress=90)
worker_progress90(w) ==
    /\ workers[w].pc = "progress90"
    /\ tasks' = update_task_status(tasks, workers[w].task_id, RUNNING, 90, NoError, now)
    /\ workers' = [workers EXCEPT ![w] = [@ EXCEPT !.pc = "save"]]
    /\ UNCHANGED <<now, last_create, cancels>>
    /\ UNCHANGED exec_vars

\* queue.save_task_result(task_id, result, provider=getattr(result, "provider", None))
worker_save(w) ==
    /\ workers[w].pc = "save"
    /\ tasks' = save_task_result(tasks, workers[w].task_id, workers[w].result,
                                 workers[w].result.provider)
    /\ workers' = [workers EXCEPT ![w] = [@ EXCEPT !.pc = "complete"]]
    /\ UNCHANGED <<now, last_create, cancels>>
    /\ UNCHANGED exec_vars

\* mutant: the COMPLETED write does not carry the progress
worker_complete_without_progress(w) ==
    /\ workers[w].pc = "complete"
    /\ tasks' = update_task_status(tasks, workers[w].task_id, COMPLETED, NoProgress, NoError, now)
    /\ workers' = [workers EXCEPT ![w] = [@ EXCEPT !.pc = "done"]]
    /\ UNCHANGED <<now, last_create, cancels>>
    /\ UNCHANGED exec_vars

\* queue.update_task_status(task_id, TaskStatus.COMPLETED, progress=100)
worker_complete(w) ==
    /\ workers[w].pc = "complete"
    /\ tasks' = update_task_status(tasks, workers[w].task_id, COMPLETED, 100, NoError, now)
    /\ workers' = [workers EXCEPT ![w] = [@ EXCEPT !.pc = "done"]]
    /\ UNCHANGED <<now, last_create, cancels>>
    /\ UNCHANGED exec_vars

\* mutant: the handler swallows the exception without recording it
worker_except_silent(w) ==
    /\ workers[w].pc = "except"
    /\ workers' = [workers EXCEPT ![w] = [@ EXCEPT !.pc = "done"]]
    /\ UNCHANGED <<tasks, now, last_create, cancels>>
    /\ UNCHANGED exec_vars

\* except Exception as e:
\*     queue.update_task_status(task_id, TaskStatus.FAILED, error=error_msg)
worker_except(w) ==
    /\ workers[w].pc = "except"
    /\ tasks' = update_task_status(tasks, workers[w].task_id, FAILED, NoProgress,
                                   error_msg(workers[w].exc), now)
    /\ workers' = [workers EXCEPT ![w] = [@ EXCEPT !.pc = "done"]]
    /\ UNCHANGED <<now, last_create, cancels>>
    /\ UNCHANGED exec_vars

WorkerActive(w) == workers[w].pc \notin {"idle", "done", "killed"}

\* the operating system kills the worker process (SIGKILL, out of memory);
\* its memory is gone
worker_killed(w) ==
    /\ WorkerActive(w)
    /\ workers' = [workers EXCEPT ![w] =
                     [IdleWorker EXCEPT !.pc = "killed", !.task_id = workers[w].task_id]]
    /\ UNCHANGED <<tasks, now, last_create, cancels>>
    /\ UNCHANGED exec_vars

execute_task_in_background(w) ==
    \/ worker_get_task(w)
    \/ worker_discover(w)
    \/ worker_claim(w)
    \/ worker_lookup(w)
    \/ worker_progress30(w)
    \/ worker_validate(w)
    \/ worker_execute(w)
    \/ worker_progress90(w)
    \/ worker_save(w)
    \/ worker_complete(w)
    \/ worker_except(w)

\* mutant: only a COMPLETED task is refused
cancel_task_read_completed_only(c, task_id) ==
    /\ cancels[c].pc = "idle"
    /\ \A b \in CancelIds : b < c => cancels[b].pc # "idle"
    /\ LET found == get_task(tasks, task_id)
       IN cancels' = [cancels EXCEPT ![c] =
                        IF found = {}
                        THEN [pc |-> "done", task_id |-> task_id, ret |-> FALSE]
                        ELSE IF (CHOOSE task \in found : TRUE).status = COMPLETED
                        THEN [pc |-> "done", task_id |-> task_id, ret |-> FALSE]
                        ELSE [pc |-> "write", task_id |-> task_id, ret |-> FALSE]]
    /\ UNCHANGED <<tasks, now, last_create, workers>>
    /\ UNCHANGED exec_vars

\* TaskQueue.cancel_task, first transaction: task = self.get_task(task_id)
\* and the two early returns
cancel_task_read(c, task_id) ==
    /\ cancels[c].pc = "idle"
    /\ \A b \in CancelIds : b < c => cancels[b].pc # "idle"
    /\ LET found == get_task(tasks, task_id)
       IN cancels' = [cancels EXCEPT ![c] =
                        IF found = {}
                        THEN [pc |-> "done", task_id |-> task_id, ret |-> FALSE]
                        ELSE IF (CHOOSE task \in found : TRUE).status \notin {PENDING, RUNNING}
                        THEN [pc |-> "done", task_id |-> task_id, ret |-> FALSE]
                        ELSE [pc |-> "write", task_id |-> task_id, ret |-> FALSE]]
    /\ UNCHANGED <<tasks, now, last_create, workers>>
    /\ UNCHANGED exec_vars

\* mutant: cancelling puts the task back in line
cancel_task_write_requeue(c) ==
    /\ cancels[c].pc = "write"
    /\ tasks' = update_task_status(tasks, cancels[c].task_id, PENDING, NoProgress, NoError, now)
    /\ cancels' = [cancels EXCEPT ![c] = [@ EXCEPT !.pc = "done", !.ret = TRUE]]
    /\ UNCHANGED <<now, last_create, workers>>
    /\ UNCHANGED exec_vars

\* TaskQueue.cancel_task, second transaction:
\* self.update_task_status(task_id, TaskStatus.CANCELLED); return True
cancel_task_write(c) ==
    /\ cancels[c].pc = "write"
    /\ tasks' = update_task_status(tasks, cancels[c].task_id, CANCELLED, NoProgress, NoError, now)
    /\ cancels' = [cancels EXCEPT ![c] = [@ EXCEPT !.pc = "done", !.ret = TRUE]]
    /\ UNCHANGED <<now, last_create, workers>>
    /\ UNCHANGED exec_vars

CancelTaskRead == \E c \in CancelIds, task_id \in TaskIds : cancel_task_read(c, task_id)
CancelTaskWrite == \E c \in CancelIds : cancel_task_write(c)
Worker == \E w \in WorkerIds : execute_task_in_background(w)
WorkerKilled == \E w \in WorkerIds : worker_killed(w)

Next ==
    \/ Tick
    \/ CreateTask
    \/ StartBackgroundTask
    \/ Worker
    \/ WorkerKilled
    \/ CancelTaskRead
    \/ CancelTaskWrite

Spec == Init /\ [][Next]_vars

(* The store on its own: create_task and cancel_task called directly, over  *)
(* several rows, with no worker process                                    *)
StoreCreateTask ==
    \E task_id \in (DOMAIN tasks \cup {Cardinality(DOMAIN tasks) + 1}) \cap RowIds,
       tool_name \in ToolNames, query \in Queries,
       input_data \in Payloads, output_file \in StoreOutputFiles,
       estimated_duration \in Durations :
        create_task(task_id, tool_name, query, input_data, output_file,
                    estimated_duration)

StoreCancelTaskRead == \E c \in CancelIds, task_id \in RowIds : cancel_task_read(c, task_id)

\* mutant: saving the result also marks the task COMPLETED
store_save_task_result_completes(task_id, result, provider) ==
    /\ tasks' = update_task_status(save_task_result(tasks, task_id, result, provider),
                                   task_id, COMPLETED, 100, NoError, now)
    /\ UNCHANGED <<now, last_create, workers, cancels>>
    /\ UNCHANGED exec_vars

\* TaskQueue.save_task_result called directly
store_save_task_result(task_id, result, provider) ==
    /\ tasks' = save_task_result(tasks, task_id, result, provider)
    /\ UNCHANGED <<now, last_create, workers, cancels>>
    /\ UNCHANGED exec_vars

StoreSaveTaskResult ==
    \E task_id \in RowIds, result \in Outputs, provider \in Providers :
        store_save_task_result(task_id, result, provider)

StoreNext ==
    \/ Tick
    \/ StoreCreateTask
    \/ StoreCancelTaskRead
    \/ CancelTaskWrite
    \/ StoreSaveTaskResult

StoreSpec == Init /\ [][StoreNext]_vars

\* TaskQueue.list_tasks called directly
list_tasks_call(status, limit) ==
    /\ \E ret \in list_tasks(tasks, status, limit) :
          last_list' = ListCall(status, limit, ret)
    /\ UNCHANGED queue_vars
    /\ UNCHANGED <<TOOL_REGISTRY, discovered, sys_modules, import_outcome,
                   executor_tools, batch, coros, last_call, last_search>>

ListTasks ==
    \E status \in StatusFilters, limit \in Limits : list_tasks_call(status, limit)

\* the store with its readers: rows are created and cancelled, and listed
ListNext ==
    \/ Tick
    \/ StoreCreateTask
    \/ StoreCancelTaskRead
    \/ CancelTaskWrite
    \/ ListTasks

ListSpec == Init /\ [][ListNext]_vars

(* The Executor (core/executor.py) in its own process, with the registry    *)
(* module it resolves its catalog from (core/registry.py).  The event loop *)
(* runs one coroutine at a time up to its next await: each such stretch is *)
(* one step.                                                               *)

\* the str(e) of an exception
str_exc(e) == e.msg

\* f"Tool '{tool_name}' not found or not enabled"
NotFoundError(tool_name) == <<"Tool '", tool_name, "' not found or not enabled">>

\* @register_tool(domain) applied to the tool classes of a module
register_tool(registry, domain, tool_names) ==
    [d \in DOMAIN registry \cup {domain} |->
        IF d = domain
        THEN (IF d \in DOMAIN registry THEN registry[d] ELSE {}) \cup tool_names
        ELSE registry[d]]

\* the loop of discover_domains from the i-th domain package on:
\* importlib.import_module does nothing for a module already in sys.modules,
\* runs the decorators of one that loads, skips one that raises ImportError,
\* and lets any other exception out
RECURSIVE import_modules(_, _, _, _)
import_modules(i, registry, modules, outcome) ==
    IF i > Len(DomainOrder)
    THEN [TOOL_REGISTRY |-> registry, sys_modules |-> modules, exc |-> NoException]
    ELSE LET d == DomainOrder[i]
         IN IF d \in modules
            THEN import_modules(i + 1, registry, modules, outcome)
            ELSE IF outcome[d] = "ok"
            THEN import_modules(i + 1, register_tool(registry, d, DomainModules[d]),
                                modules \cup {d}, outcome)
            ELSE IF outcome[d] = "ImportError"
            THEN import_modules(i + 1, registry, modules, outcome)
            ELSE [TOOL_REGISTRY |-> registry, sys_modules |-> modules,
                  exc |-> [kind |-> outcome[d], msg |-> <<"invalid syntax">>]]

\* mutant: every call rebuilds the registry from the packages
discover_domains_rebuilds(registry, done, modules, outcome) ==
    LET r == import_modules(1, <<>>, {}, outcome)
    IN [TOOL_REGISTRY |-> r.TOOL_REGISTRY, discovered |-> (r.exc = NoException),
        sys_modules |-> modules \cup r.sys_modules, exc |-> r.exc]

\* discover_domains(): nothing when _discovered; else the import loop, and
\* _discovered = True when the loop was not left by an exception
discover_domains(registry, done, modules, outcome) ==
    IF done
    THEN [TOOL_REGISTRY |-> registry, discovered |-> TRUE, sys_modules |-> modules,
          exc |-> NoException]
    ELSE LET r == import_modules(1, registry, modules, outcome)
         IN [TOOL_REGISTRY |-> r.TOOL_REGISTRY, discovered |-> (r.exc = NoException),
             sys_modules |-> r.sys_modules, exc |-> r.exc]

\* mutant: a release that wakes a waiter also leaves the slot free
semaphore_release_slot_kept(i, sem, coro) ==
    IF batch.waiters = <<>>
    THEN /\ coros' = [coros EXCEPT ![i] = coro]
         /\ batch' = [batch EXCEPT !.semaphore = sem + 1]
    ELSE /\ coros' = [coros EXCEPT ![i] = coro,
                                   ![Head(batch.waiters)] = [@ EXCEPT !.pc = "admitted"]]
         /\ batch' = [batch EXCEPT !.semaphore = sem + 1, !.waiters = Tail(@)]

\* asyncio.Semaphore.release as the coroutine i leaves `async with semaphore`
\* in the state coro; sem is the semaphore's value while i held its slot.
\* The first waiter, if any, is handed the slot and scheduled
semaphore_release(i, sem, coro) ==
    IF batch.waiters = <<>>
    THEN /\ coros' = [coros EXCEPT ![i] = coro]
         /\ batch' = [batch EXCEPT !.semaphore = sem + 1]
    ELSE /\ coros' = [coros EXCEPT ![i] = coro,
                                   ![Head(batch.waiters)] = [@ EXCEPT !.pc = "admitted"]]
         /\ batch' = [batch EXCEPT !.semaphore = sem, !.waiters = Tail(@)]

\* mutant: the catalog is read from the registry at every access
Executor_tools_uncached(cache, registry) == get_tools(registry, EnabledDomains)

\* the Executor.tools property: the cached catalog, resolved from the
\* registry (after discovery) when self._tools is None
Executor_tools(cache, registry) ==
    IF cache.resolved THEN cache.names ELSE get_tools(registry, EnabledDomains)

\* Executor.execute up to its await: the membership test on self.tools
\* (which resolves the catalog on its first access, outside the try), then,
\* inside the try, construction and validation
execute_begin(i, sem) ==
    \E outcome \in ImportOutcomes, construct_ok \in BOOLEAN :
        /\ import_outcome # NotImported => outcome = import_outcome
        /\ LET req == batch.requests[i]
               d == IF executor_tools.resolved
                    THEN [TOOL_REGISTRY |-> TOOL_REGISTRY, discovered |-> discovered,
                          sys_modules |-> sys_modules, exc |-> NoException]
                    ELSE discover_domains(TOOL_REGISTRY, discovered, sys_modules, outcome)
               tools == Executor_tools(executor_tools, d.TOOL_REGISTRY)
           IN /\ TOOL_REGISTRY' = d.TOOL_REGISTRY
              /\ discovered' = d.discovered
              /\ sys_modules' = d.sys_modules
              /\ import_outcome' = IF executor_tools.resolved \/ discovered
                                   THEN import_outcome ELSE outcome
              /\ IF d.exc # NoException
                 THEN /\ executor_tools' = executor_tools
                      /\ semaphore_release(i, sem,
                            [coros[i] EXCEPT !.pc = "raised", !.exc = d.exc])
                 ELSE /\ executor_tools' = [resolved |-> TRUE, names |-> tools]
                      /\ IF req.tool_name \notin tools
                         THEN semaphore_release(i, sem,
                                [coros[i] EXCEPT !.pc = "returned",
                                    !.result = ExecutionResult(req.tool_name, FALSE, NoOutput,
                                                   NotFoundError(req.tool_name))])
                         ELSE IF ~construct_ok
                         THEN semaphore_release(i, sem,
                                [coros[i] EXCEPT !.pc = "returned", !.constructed = 1,
                                    !.exc = [kind |-> "TypeError", msg |-> <<"bad settings">>],
                                    !.result = WithTime(
                                        ExecutionResult(req.tool_name, FALSE, NoOutput,
                                                        <<"bad settings">>),
                                        elapsed_ms(now, now))])
                         ELSE IF ~input_model_ok(req.input_data)
                         THEN semaphore_release(i, sem,
                                [coros[i] EXCEPT !.pc = "returned", !.constructed = 1,
                                    !.exc = [kind |-> "ValidationError",
                                             msg |-> <<"query: Field required">>],
                                    !.result = WithTime(
                                        ExecutionResult(req.tool_name, FALSE, NoOutput,
                                                        <<"query: Field required">>),
                                        elapsed_ms(now, now))])
                         ELSE /\ coros' = [coros EXCEPT ![i] =
                                             [@ EXCEPT !.pc = "executing", !.start_time = now,
                                                       !.constructed = 1, !.invoked = 1]]
                              /\ batch' = [batch EXCEPT !.semaphore = sem]
        /\ UNCHANGED <<queue_vars, last_call, last_list, last_search>>

\* Executor.execute_batch up to its await on gather: the limit (a missing or
\* zero max_concurrent means the configured one), the semaphore, one task
\* per request
execute_batch(requests, max_concurrent) ==
    /\ batch.state = "idle"
    /\ batch' = [state |-> "running", requests |-> requests,
                 max_concurrent |-> max_concurrent,
                 semaphore |-> IF max_concurrent = 0
                               THEN max_concurrent_requests ELSE max_concurrent,
                 waiters |-> <<>>, start_time |-> now, results |-> <<>>,
                 total_time_ms |-> 0]
    /\ coros' = [i \in DOMAIN requests |-> NewCoro]
    /\ UNCHANGED <<TOOL_REGISTRY, discovered, sys_modules, import_outcome, executor_tools>>
    /\ UNCHANGED <<queue_vars, last_call, last_list, last_search>>


\* mutant: the semaphore wakes the waiter that came last
limited_execute_enter_lifo(i) ==
    /\ coros[i].pc = "created"
    /\ \A j \in DOMAIN coros : j < i => coros[j].pc # "created"
    /\ IF batch.semaphore > 0
       THEN execute_begin(i, batch.semaphore - 1)
       ELSE /\ coros' = [coros EXCEPT ![i] = [@ EXCEPT !.pc = "waiting"]]
            /\ batch' = [batch EXCEPT !.waiters = <<i>> \o @]
            /\ UNCHANGED <<TOOL_REGISTRY, discovered, sys_modules, import_outcome,
                           executor_tools>>
            /\ UNCHANGED <<queue_vars, last_call, last_list, last_search>>

\* the first run of the task of request i (tasks run in creation order):
\* `async with semaphore` takes a slot and goes on into execute, or queues
limited_execute_enter(i) ==
    /\ coros[i].pc = "created"
    /\ \A j \in DOMAIN coros : j < i => coros[j].pc # "created"
    /\ IF batch.semaphore > 0
       THEN execute_begin(i, batch.semaphore - 1)
       ELSE /\ coros' = [coros EXCEPT ![i] = [@ EXCEPT !.pc = "waiting"]]
            /\ batch' = [batch EXCEPT !.waiters = Append(@, i)]
            /\ UNCHANGED <<TOOL_REGISTRY, discovered, sys_modules, import_outcome,
                           executor_tools>>
            /\ UNCHANGED <<queue_vars, last_call, last_list, last_search>>

\* a waiter that was handed a slot runs (woken tasks run in wake order)
limited_execute_resume(i) ==
    /\ coros[i].pc = "admitted"
    /\ \A j \in DOMAIN coros : j < i => coros[j].pc # "admitted"
    /\ execute_begin(i, batch.semaphore)

\* mutant: an invocation that raises cancels the requests still waiting
execute_finish_cancels_waiters(i) ==
    /\ coros[i].pc = "executing"
    /\ \/ \E r \in Outputs :
            semaphore_release(i, batch.semaphore,
                [coros[i] EXCEPT !.pc = "returned", !.start_time = NoTime,
                    !.result = WithTime(
                        ExecutionResult(batch.requests[i].tool_name, TRUE, r, NoError),
                        elapsed_ms(coros[i].start_time, now))])
       \/ LET e == [kind |-> "RuntimeError", msg |-> <<"provider failed">>]
          IN /\ coros' = [j \in DOMAIN coros |->
                            IF j = i
                            THEN [coros[i] EXCEPT !.pc = "returned", !.start_time = NoTime,
                                    !.exc = e,
                                    !.result = WithTime(
                                        ExecutionResult(batch.requests[i].tool_name,
                                                        FALSE, NoOutput, str_exc(e)),
                                        elapsed_ms(coros[i].start_time, now))]
                            ELSE IF coros[j].pc = "waiting"
                            THEN [coros[j] EXCEPT !.pc = "returned",
                                    !.result = ExecutionResult(batch.requests[j].tool_name,
                                                   FALSE, NoOutput, <<"cancelled">>)]
                            ELSE coros[j]]
             /\ batch' = [batch EXCEPT !.semaphore = @ + 1, !.waiters = <<>>]
    /\ UNCHANGED <<TOOL_REGISTRY, discovered, sys_modules, import_outcome, executor_tools>>
    /\ UNCHANGED <<queue_vars, last_call, last_list, last_search>>

\* result = await tool.execute(validated_input) returns or raises; the
\* except clause turns the exception into a result
execute_finish(i) ==
    /\ coros[i].pc = "executing"
    /\ \/ \E r \in Outputs :
            semaphore_release(i, batch.semaphore,
                [coros[i] EXCEPT !.pc = "returned", !.start_time = NoTime,
                    !.result = WithTime(
                        ExecutionResult(batch.requests[i].tool_name, TRUE, r, NoError),
                        elapsed_ms(coros[i].start_time, now))])
       \/ LET e == [kind |-> "RuntimeError", msg |-> <<"provider failed">>]
          IN semaphore_release(i, batch.semaphore,
                [coros[i] EXCEPT !.pc = "returned", !.start_time = NoTime, !.exc = e,
                    !.result = WithTime(
                        ExecutionResult(batch.requests[i].tool_name, FALSE, NoOutput,
                                        str_exc(e)),
                        elapsed_ms(coros[i].start_time, now))])
    /\ UNCHANGED <<TOOL_REGISTRY, discovered, sys_modules, import_outcome, executor_tools>>
    /\ UNCHANGED <<queue_vars, last_call, last_list, last_search>>

\* mutant: the results are returned last request first
execute_batch_return_reversed ==
    /\ batch.state = "running"
    /\ \A i \in DOMAIN coros : coros[i].pc = "returned"
    /\ LET r == BatchResult([i \in DOMAIN coros |-> coros[Len(coros) + 1 - i].result],
                            batch.start_time, now)
       IN batch' = [batch EXCEPT !.state = "returned", !.start_time = NoTime,
                                 !.results = r.results,
                                 !.total_time_ms = r.total_time_ms]
    /\ UNCHANGED <<TOOL_REGISTRY, discovered, sys_modules, import_outcome,
                   executor_tools, coros>>
    /\ UNCHANGED <<queue_vars, last_call, last_list, last_search>>

\* gather has every result: execute_batch returns them in request order
execute_batch_return ==
    /\ batch.state = "running"
    /\ \A i \in DOMAIN coros : coros[i].pc = "returned"
    /\ LET r == BatchResult([i \in DOMAIN coros |-> coros[i].result],
                            batch.start_time, now)
       IN batch' = [batch EXCEPT !.state = "returned", !.start_time = NoTime,
                                 !.results = r.results,
                                 !.total_time_ms = r.total_time_ms]
    /\ UNCHANGED <<TOOL_REGISTRY, discovered, sys_modules, import_outcome,
                   executor_tools, coros>>
    /\ UNCHANGED <<queue_vars, last_call, last_list, last_search>>

\* gather(return_exceptions=False) passes the first exception of a task on:
\* execute_batch raises (the other tasks go on running)
execute_batch_raise ==
    /\ batch.state = "running"
    /\ \E i \in DOMAIN coros : coros[i].pc = "raised"
    /\ batch' = [batch EXCEPT !.state = "raised", !.start_time = NoTime]
    /\ UNCHANGED <<TOOL_REGISTRY, discovered, sys_modules, import_outcome,
                   executor_tools, coros>>
    /\ UNCHANGED <<queue_vars, last_call, last_list, last_search>>

ExecuteBatch ==
    \E n \in BatchSizes :
        \E requests \in [1..n -> Requests], max_concurrent \in ConcurrencyLimits :
            execute_batch(requests, max_concurrent)

LimitedExecuteEnter == \E i \in DOMAIN coros : limited_execute_enter(i)
LimitedExecuteResume == \E i \in DOMAIN coros : limited_execute_resume(i)
ExecuteFinish == \E i \in DOMAIN coros : execute_finish(i)

ExecNext ==
    \/ Tick
    \/ ExecuteBatch
    \/ LimitedExecuteEnter
    \/ LimitedExecuteResume
    \/ ExecuteFinish
    \/ execute_batch_return
    \/ execute_batch_raise

ExecSpec == Init /\ [][ExecNext]_vars

\* Executor.search_parallel up to the await inside execute_batch: the tool
\* list (the search tools of the catalog, which this resolves on its first
\* access, when none is given), one request per tool with the query, and
\* execute_batch on them with the configured limit.  The catalog is a dict:
\* its search tools come in the order of registration, which a set leaves
\* open.
search_parallel(query, given, tools) ==
    /\ batch.state = "idle"
    /\ \E outcome \in ImportOutcomes :
          /\ import_outcome # NotImported => outcome = import_outcome
          /\ LET cached == given \/ executor_tools.resolved
                 d == IF cached
                      THEN [TOOL_REGISTRY |-> TOOL_REGISTRY, discovered |-> discovered,
                            sys_modules |-> sys_modules, exc |-> NoException]
                      ELSE discover_domains(TOOL_REGISTRY, discovered, sys_modules, outcome)
                 catalog == Executor_tools(executor_tools, d.TOOL_REGISTRY)
             IN /\ TOOL_REGISTRY' = d.TOOL_REGISTRY
                /\ discovered' = d.discovered
                /\ sys_modules' = d.sys_modules
                /\ import_outcome' = IF cached \/ discovered
                                     THEN import_outcome ELSE outcome
                /\ IF d.exc # NoException
                   THEN /\ executor_tools' = executor_tools
                        /\ batch' = [batch EXCEPT !.state = "raised"]
                        /\ coros' = coros
                   ELSE /\ executor_tools' = IF given THEN executor_tools
                                             ELSE [resolved |-> TRUE, names |-> catalog]
                        /\ \E names \in IF given THEN {tools}
                                         ELSE Orderings(search_tools(catalog)) :
                              LET requests == [i \in DOMAIN names |->
                                                 [tool_name |-> names[i],
                                                  input_data |-> {<<"query", query>>}]]
                              IN /\ batch' = [state |-> "running", requests |-> requests,
                                              max_concurrent |-> 0,
                                              semaphore |-> max_concurrent_requests,
                                              waiters |-> <<>>, start_time |-> now,
                                              results |-> <<>>, total_time_ms |-> 0]
                                 /\ coros' = [i \in DOMAIN requests |-> NewCoro]
    /\ last_search' = SearchCall(query, given, tools)
    /\ UNCHANGED <<queue_vars, last_call, last_list>>

SearchParallel ==
    \E query \in SearchQueries :
        \/ search_parallel(query, FALSE, <<>>)
        \/ \E tools \in SearchToolLists : search_parallel(query, TRUE, tools)

\* the Executor driven through search_parallel (with the configured limit of
\* max_concurrent_requests slots no task of a batch of this size waits)
SearchNext ==
    \/ Tick
    \/ SearchParallel
    \/ LimitedExecuteEnter
    \/ ExecuteFinish
    \/ execute_batch_return
    \/ execute_batch_raise

SearchSpec == Init /\ [][SearchNext]_vars

(* The worker and the Executor side by side on one installation: a task is *)
(* created and run by a worker process while an Executor in another        *)
(* process executes one request.                                           *)

\* Executor.execute called for one tool and payload (run as the only request
\* of a batch, under the configured limit)
execute_call(tool_name, input_data) ==
    execute_batch(<<[tool_name |-> tool_name, input_data |-> input_data]>>, 0)

ExecuteOne ==
    \E tool_name \in ExecToolNames, input_data \in Payloads :
        execute_call(tool_name, input_data)

\* both processes import the same domain packages: the discovery of a worker
\* meets the load outcomes that the Executor's discovery met
SameInstallation(w) ==
    workers[w].pc = "discover"
        => /\ import_outcome # NotImported
           /\ IF \E d \in Domains : import_outcome[d] = "SyntaxError"
              THEN workers'[w].pc = "except"
              ELSE /\ workers'[w].pc = "claim"
                   /\ workers'[w].registry =
                         ImportModules({d \in Domains : import_outcome[d] = "ImportError"})

EquivWorker ==
    \E w \in WorkerIds : execute_task_in_background(w) /\ SameInstallation(w)

EquivNext ==
    \/ CreateTask
    \/ StartBackgroundTask
    \/ EquivWorker
    \/ ExecuteOne
    \/ LimitedExecuteEnter
    \/ ExecuteFinish
    \/ execute_batch_return
    \/ execute_batch_raise

EquivSpec == Init /\ [][EquivNext]_vars

(* The registry module (core/registry.py) called directly                  *)

\* the import loop of a discover_domains() call, entered from any of the
\* registry's functions; r is what discover_domains leaves
run_discovery(outcome, r) ==
    /\ import_outcome # NotImported => outcome = import_outcome
    /\ r = discover_domains(TOOL_REGISTRY, discovered, sys_modules, outcome)
    /\ TOOL_REGISTRY' = r.TOOL_REGISTRY
    /\ discovered' = r.discovered
    /\ sys_modules' = r.sys_modules
    /\ import_outcome' = IF discovered THEN import_outcome ELSE outcome

\* what the calls on the registry leave alone
RegistryFrame ==
    UNCHANGED <<queue_vars, executor_tools, batch, coros, last_list, last_search>>

\* a call of discover_domains()
discover_domains_call ==
    /\ \E outcome \in ImportOutcomes :
          LET r == discover_domains(TOOL_REGISTRY, discovered, sys_modules, outcome)
          IN /\ run_discovery(outcome, r)
             /\ last_call' = RegistryCall("discover_domains", {}, {}, r.exc)
    /\ RegistryFrame

\* a call of get_tools(domains): discovery, then the merge over the domains
\* given (all registered domains when omitted)
get_tools_call(domains) ==
    /\ \E outcome \in ImportOutcomes :
          LET r == discover_domains(TOOL_REGISTRY, discovered, sys_modules, outcome)
              listed == IF domains = DomainsOmitted THEN DOMAIN r.TOOL_REGISTRY ELSE domains
          IN /\ run_discovery(outcome, r)
             /\ last_call' = IF r.exc # NoException
                             THEN RegistryCall("get_tools", domains, {}, r.exc)
                             ELSE RegistryCall("get_tools", domains,
                                               get_tools(r.TOOL_REGISTRY, listed), NoException)
    /\ RegistryFrame

\* a call of get_all_domains(): discovery, then the registered domain names
get_all_domains_call ==
    /\ \E outcome \in ImportOutcomes :
          LET r == discover_domains(TOOL_REGISTRY, discovered, sys_modules, outcome)
          IN /\ run_discovery(outcome, r)
             /\ last_call' = IF r.exc # NoException
                             THEN RegistryCall("get_all_domains", {}, {}, r.exc)
                             ELSE RegistryCall("get_all_domains", {},
                                               DOMAIN r.TOOL_REGISTRY, NoException)
    /\ RegistryFrame

\* reset_registry(): the registries are cleared and _discovered is False;
\* sys.modules keeps the modules already imported
reset_registry ==
    /\ TOOL_REGISTRY' = <<>>
    /\ discovered' = FALSE
    /\ last_call' = RegistryCall("reset_registry", {}, {}, NoException)
    /\ UNCHANGED <<sys_modules, import_outcome>>
    /\ RegistryFrame

\* @register_tool(domain) applied to a class named tool_name outside the
\* domain packages
register_tool_call(domain, tool_name) ==
    /\ TOOL_REGISTRY' = register_tool(TOOL_REGISTRY, domain, {tool_name})
    /\ last_call' = RegistryCall("register_tool", {domain}, {tool_name}, NoException)
    /\ UNCHANGED <<discovered, sys_modules, import_outcome>>
    /\ RegistryFrame

GetTools == \E domains \in LookupArgs : get_tools_call(domains)
RegisterTool == \E domain \in RegistryDomains, tool_name \in ToolNames :
                    register_tool_call(domain, tool_name)

RegNext ==
    \/ discover_domains_call
    \/ GetTools
    \/ get_all_domains_call
    \/ reset_registry
    \/ RegisterTool

RegSpec == Init /\ [][RegNext]_vars

(* One Executor after another in a process whose registry changes between  *)
(* their calls                                                             *)

\* the caller has the outcome of the call (its frames are gone); the
\* Executor is idle again
call_over ==
    /\ batch.state \in {"returned", "raised"}
    /\ \A i \in DOMAIN coros : coros[i].pc \in {"returned", "raised"}
    /\ batch' = IdleBatch
    /\ coros' = <<>>
    /\ last_search' = NoSearchCall
    /\ UNCHANGED <<TOOL_REGISTRY, discovered, sys_modules, import_outcome, executor_tools>>
    /\ UNCHANGED <<queue_vars, last_call, last_list>>

\* Executor(): a new instance, with self._tools = None, takes the place of
\* the idle one
Executor_init ==
    /\ batch.state = "idle"
    /\ executor_tools.resolved
    /\ executor_tools' = NoTools
    /\ UNCHANGED <<TOOL_REGISTRY, discovered, sys_modules, import_outcome, batch, coros>>
    /\ UNCHANGED <<queue_vars, last_call, last_list, last_search>>

CacheNext ==
    \/ ExecuteOne
    \/ \E query \in Queries : search_parallel(query, FALSE, <<>>)
    \/ LimitedExecuteEnter
    \/ ExecuteFinish
    \/ execute_batch_return
    \/ execute_batch_raise
    \/ call_over
    \/ Executor_init
    \* a tool is registered under an enabled domain while the process runs
    \/ \E domain \in EnabledDomains : register_tool_call(domain, "search_google_reviews")
    \/ reset_registry

CacheSpec == Init /\ [][CacheNext]_vars

(* ------------------------ derived notions ------------------------------ *)
Terminal == {COMPLETED, FAILED, CANCELLED}

\* the transitions of the task state machine
AllowedTransitions ==
    {<<PENDING, RUNNING>>, <<RUNNING, COMPLETED>>, <<RUNNING, FAILED>>,
     <<PENDING, CANCELLED>>, <<RUNNING, CANCELLED>>}

\* the worker processes started for a task, and the cancel_task calls issued for it
WorkersOf(t) == {w \in WorkerIds : workers[w].pc # "idle" /\ workers[w].task_id = t}
CancelsOf(t) == {c \in CancelIds : cancels[c].pc # "idle" /\ cancels[c].task_id = t}

\* the worker found its task (get_task returned a row)
Found(w) == workers[w].tool_name # NULL

\* the stored status of a task id, as get_task shows it ("None": no such task)
StatusOf(t) == IF t \in DOMAIN tasks THEN tasks[t].status ELSE NULL

\* the catalog of the enabled domains when every domain module loads
EnabledCatalog == get_tools(ImportModules({}), EnabledDomains)

\* the text of a message mentions a tool name
Mentions(error, tool_name) ==
    /\ error # NoError
    /\ \E i \in DOMAIN error[3] : error[3][i] = tool_name

(* ------------------------------ claims --------------------------------- *)

\* C1: with one worker run and any cancel_task calls on a task, every change
\* of its stored status is PENDING->RUNNING, RUNNING->COMPLETED,
\* RUNNING->FAILED, PENDING->CANCELLED or RUNNING->CANCELLED (so a terminal
\* status never changes again).
C1_OnlyStateMachineTransitions ==
    [][\A t \in DOMAIN tasks :
          (Cardinality(WorkersOf(t)) <= 1 /\ tasks'[t].status # tasks[t].status)
              => <<tasks[t].status, tasks'[t].status>> \in AllowedTransitions]_vars

\* C2: for every task (run by the single worker the queue assumes, with any
\* cancel_task calls), completed_at is set exactly when the status is
\* COMPLETED, FAILED or CANCELLED.
C2_CompletedAtIffTerminal ==
    \A t \in DOMAIN tasks :
        Cardinality(WorkersOf(t)) <= 1
            => ((tasks[t].completed_at # NoTime) <=> (tasks[t].status \in Terminal))

\* C3: for every task (run by a single worker), a stored result is non-empty
\* only if the status is COMPLETED, also between save_task_result and the
\* COMPLETED write and after a cancel_task.
C3_ResultOnlyWhenCompleted ==
    \A t \in DOMAIN tasks :
        (Cardinality(WorkersOf(t)) <= 1 /\ tasks[t].result_json # NoResult)
            => tasks[t].status = COMPLETED

\* C4: the write of cancel_task never lands on a task whose status is
\* terminal at that moment (the task being run by a single worker): it
\* neither replaces COMPLETED or FAILED by CANCELLED nor returns true for it.
C4_CancelNeverHitsTerminal ==
    [][\A c \in CancelIds :
          (/\ cancels[c].pc = "write" /\ cancels'[c].pc = "done"
           /\ Cardinality(WorkersOf(cancels[c].task_id)) <= 1)
              => ~ (/\ tasks[cancels[c].task_id].status \in Terminal
                    /\ \/ tasks'[cancels[c].task_id].status = CANCELLED
                       \/ cancels'[c].ret)]_vars

\* the worker w ran alone on its task and no cancel_task was issued for it
RanAlone(w) ==
    /\ WorkersOf(workers[w].task_id) = {w}
    /\ CancelsOf(workers[w].task_id) = {}

\* C5: when the only worker of a task has finished after its tool invocation
\* returned (so the tool was in the catalog and the input validated) and no
\* cancel_task was issued, the row shows COMPLETED, completed_at set, the
\* serialised output of the tool as result, and progress 100.
C5_SuccessfulRunCompletes ==
    \A w \in WorkerIds :
        (workers[w].pc = "done" /\ workers[w].result # NoOutput /\ RanAlone(w))
            => LET row == tasks[workers[w].task_id]
               IN /\ row.status = COMPLETED
                  /\ row.completed_at # NoTime
                  /\ row.result_json = model_dump_json(workers[w].result)
                  /\ row.progress = 100

C5_Witness ==
    \E w \in WorkerIds :
        /\ workers[w].pc = "done" /\ workers[w].result \in Outputs /\ RanAlone(w)
        /\ tasks[workers[w].task_id].status = COMPLETED
        /\ tasks[workers[w].task_id].result_json = <<"json", workers[w].result>>

FairSpec == Spec /\ \A w \in WorkerIds : WF_vars(execute_task_in_background(w))

\* C7: a worker that found its task and is not killed reaches its end with
\* the task in a terminal status; when it ran alone and no cancel_task was
\* issued, that status is COMPLETED exactly when no step raised and FAILED
\* exactly when some step raised.
C7_WorkerEndsTerminal ==
    /\ \A w \in WorkerIds :
          (Found(w) /\ WorkerActive(w))
              ~> \/ workers[w].pc = "killed"
                 \/ /\ workers[w].pc = "done"
                    /\ StatusOf(workers[w].task_id) \in Terminal
    /\ [](\A w \in WorkerIds :
             (workers[w].pc = "done" /\ Found(w) /\ RanAlone(w))
                 => /\ StatusOf(workers[w].task_id) = COMPLETED
                          <=> workers[w].exc = NoException
                    /\ StatusOf(workers[w].task_id) = FAILED
                          <=> workers[w].exc # NoException)

C7_Witness ==
    \E w \in WorkerIds :
        /\ workers[w].pc = "done" /\ Found(w) /\ RanAlone(w)
        /\ workers[w].exc.kind = "RuntimeError"
        /\ workers[w].invoked = 1
        /\ tasks[workers[w].task_id].status = FAILED

\* C8 as claimed: for a task whose tool is not in the enabled-domain catalog,
\* the worker moves the task directly from PENDING to FAILED (the task is
\* never seen in another status), the error stored for the missing tool
\* contains the tool name, and no tool is invoked.
C8_FailsDirectlyFromPending ==
    \A w \in WorkerIds :
        (Found(w) /\ workers[w].tool_name \notin EnabledCatalog /\ RanAlone(w))
            => LET row == tasks[workers[w].task_id]
               IN /\ row.status \in {PENDING, FAILED}
                  /\ (row.status = FAILED /\ workers[w].exc.kind = "ValueError")
                        => Mentions(row.error, workers[w].tool_name)
                  /\ workers[w].invoked = 0

\* C8 as amended: for a task whose tool is not in the enabled-domain catalog
\* no tool is invoked, and a worker that reaches the tool lookup has already
\* written RUNNING: its FAILED write carries an error containing the tool
\* name and, when it ran alone with no cancel_task, moves the task from
\* RUNNING to FAILED (PENDING -> RUNNING -> FAILED).
C8_FailsAfterRunning ==
    [][\A w \in WorkerIds :
          (Found(w) /\ workers[w].tool_name \notin EnabledCatalog)
              => /\ workers'[w].invoked = 0
                 /\ workers'[w].pc \notin {"progress30", "validate", "execute"}
                 /\ (/\ workers[w].pc = "except" /\ workers'[w].pc = "done"
                     /\ workers[w].exc.kind = "ValueError")
                       => /\ workers[w].claimed
                          /\ tasks'[workers[w].task_id].status = FAILED
                          /\ Mentions(tasks'[workers[w].task_id].error,
                                      workers[w].tool_name)
                          /\ RanAlone(w)
                                => tasks[workers[w].task_id].status = RUNNING]_vars

C8_Witness ==
    \E w \in WorkerIds :
        /\ workers[w].pc = "done" /\ RanAlone(w) /\ workers[w].claimed
        /\ workers[w].tool_name \notin EnabledCatalog
        /\ workers[w].exc.kind = "ValueError"
        /\ tasks[workers[w].task_id].status = FAILED
        /\ tasks[workers[w].task_id].progress = 10

\* C9: once the single worker of a task has claimed it (PENDING -> RUNNING
\* with the first progress checkpoint), the row shows started_at set.
C9_StartedAtStampedOnClaim ==
    \A w \in WorkerIds :
        (workers[w].claimed /\ WorkersOf(workers[w].task_id) = {w})
            => tasks[workers[w].task_id].started_at # NoTime

\* C10: once completed_at of a task (run by a single worker) is set, no later
\* update_task_status or cancel_task changes its value.
C10_CompletedAtStampedOnce ==
    [][\A t \in DOMAIN tasks :
          (Cardinality(WorkersOf(t)) <= 1 /\ tasks[t].completed_at # NoTime)
              => tasks'[t].completed_at = tasks[t].completed_at]_vars

\* C11: for a task executed by one worker (with any cancel_task calls), no
\* write lowers the stored progress (the checkpoints 10, 30, 90 are written in
\* that order while the worker reports RUNNING), and the write that brings
\* progress to 100 is the one that sets the status to COMPLETED.
C11_ProgressMonotone ==
    [][\A t \in DOMAIN tasks :
          Cardinality(WorkersOf(t)) <= 1
              => /\ tasks'[t].progress >= tasks[t].progress
                 /\ (tasks'[t].status = RUNNING /\ tasks'[t].progress # tasks[t].progress)
                       => <<tasks[t].progress, tasks'[t].progress>>
                              \in {<<0, 10>>, <<10, 30>>, <<30, 90>>}
                 /\ (tasks'[t].progress = 100 /\ tasks[t].progress # 100)
                       => (tasks'[t].status = COMPLETED /\ tasks[t].progress = 90)]_vars

C11_Witness ==
    \E w \in WorkerIds :
        /\ workers[w].pc = "done" /\ Found(w)
        /\ WorkersOf(workers[w].task_id) = {w}
        /\ CancelsOf(workers[w].task_id) # {}
        /\ tasks[workers[w].task_id].progress = 100

\* a row as create_task leaves it: PENDING, progress 0, nothing stamped or stored
Pristine(row) ==
    /\ row.status = PENDING /\ row.progress = 0
    /\ row.started_at = NoTime /\ row.completed_at = NoTime
    /\ row.error = NoError /\ row.result_json = NoResult

\* C12: right after create_task returns t, the row of t shows PENDING,
\* progress 0, the tool_name, query and output_file passed to the call, and no
\* started_at, completed_at, error or result; and as long as neither
\* start_background_task nor cancel_task has been called for t the row stays
\* PENDING and untouched (but for a result stored by a direct
\* save_task_result call).
C12_CreatedPendingAndStaysSo ==
    [][/\ \A t \in DOMAIN tasks' \ DOMAIN tasks :
             /\ last_create'.ret = t
             /\ tasks'[t].task_id = t
             /\ tasks'[t].tool_name = last_create'.tool_name
             /\ tasks'[t].query = last_create'.query
             /\ tasks'[t].output_file = last_create'.output_file
             /\ Pristine(tasks'[t])
       /\ \A t \in DOMAIN tasks :
             (WorkersOf(t)' = {} /\ CancelsOf(t)' = {})
                 => tasks'[t] = [tasks[t] EXCEPT !.result_json = tasks'[t].result_json,
                                                 !.provider = tasks'[t].provider]]_vars

C12_Witness ==
    \E t \in DOMAIN tasks :
        /\ last_create.ret = IntegrityError
        /\ tasks[t].output_file = "report.md" /\ last_create.output_file = NULL
        /\ WorkersOf(t) = {} /\ CancelsOf(t) = {}
        /\ Pristine(tasks[t]) /\ now > tasks[t].created_at

\* a step of a create_task call: a new call record, or a row added or put
\* back as new, while the clock and every process stay where they are
CreateStep ==
    /\ UNCHANGED <<now, workers, cancels>>
    /\ UNCHANGED exec_vars
    /\ \/ last_create' # last_create
       \/ DOMAIN tasks' # DOMAIN tasks
       \/ \E t \in DOMAIN tasks : Pristine(tasks'[t]) /\ ~Pristine(tasks[t])

\* C13: task ids are unique: a create_task call that returns gives an id that
\* no earlier call returned (none had a row), adds exactly the one row of that
\* id and changes no other row; a call whose id collides raises and leaves
\* the table as it was; no row ever disappears, so the table holds exactly
\* one row per returned id.
C13_TaskIdUnique ==
    [][/\ DOMAIN tasks \subseteq DOMAIN tasks'
       /\ \A t \in DOMAIN tasks' : tasks'[t].task_id = t
       /\ CreateStep
             => IF last_create'.ret = IntegrityError
                THEN tasks' = tasks
                ELSE /\ last_create'.ret \notin DOMAIN tasks
                     /\ DOMAIN tasks' = DOMAIN tasks \cup {last_create'.ret}
                     /\ \A t \in DOMAIN tasks : tasks'[t] = tasks[t]]_vars

C13_Witness ==
    /\ DOMAIN tasks = RowIds
    /\ last_create.ret = IntegrityError
    /\ \E t \in DOMAIN tasks : tasks[t].status = CANCELLED
    /\ \E t \in DOMAIN tasks : tasks[t].status = PENDING

C15_CancelPendingTask ==
    [][\A c \in CancelIds :
          /\ (/\ cancels[c].pc = "idle" /\ cancels'[c].pc # "idle"
              /\ StatusOf(cancels'[c].task_id) = PENDING)
                => cancels'[c].pc = "write"
          /\ (/\ cancels[c].pc = "write" /\ cancels'[c].pc # "write"
              /\ WorkersOf(cancels[c].task_id) = {})
                => /\ cancels'[c].pc = "done" /\ cancels'[c].ret = TRUE
                   /\ tasks'[cancels[c].task_id].status = CANCELLED
                   /\ tasks'[cancels[c].task_id].completed_at = now
                   /\ tasks'[cancels[c].task_id].completed_at # NoTime
                   /\ tasks'[cancels[c].task_id].started_at = NoTime
                   /\ tasks'[cancels[c].task_id].progress = 0
                   /\ tasks'[cancels[c].task_id].result_json = NoResult]_vars

C15_Witness ==
    \E c \in CancelIds :
        /\ cancels[c].pc = "done" /\ cancels[c].ret = TRUE
        /\ WorkersOf(cancels[c].task_id) = {}
        /\ StatusOf(cancels[c].task_id) = CANCELLED
        /\ tasks[cancels[c].task_id].completed_at > tasks[cancels[c].task_id].created_at

\* C16: once the status of a task is not PENDING, no step of any worker, of
\* cancel_task or of create_task makes it PENDING again.
C16_NeverBackToPending ==
    [][\A t \in DOMAIN tasks :
          tasks[t].status # PENDING => tasks'[t].status # PENDING]_vars

C16_Witness ==
    \E t \in DOMAIN tasks :
        /\ tasks[t].status = RUNNING /\ tasks[t].completed_at # NoTime
        /\ last_create.ret = IntegrityError
        /\ \E c \in CancelsOf(t) : cancels[c].pc = "done" /\ cancels[c].ret

\* C17: whatever workers and cancel_task calls are in flight, the row a read
\* returns (the stored row, each write being one transaction) never shows a
\* terminal status without completed_at, COMPLETED with a progress other than
\* 100, or FAILED without the error message of a worker that raised.
C17_ReadsSeeWholeWrites ==
    \A t \in DOMAIN tasks :
        \A task \in get_task(tasks, t) :
            /\ task.status \in Terminal => task.completed_at # NoTime
            /\ task.status = COMPLETED => task.progress = 100
            /\ task.status = FAILED
                  => /\ task.error # NoError
                     /\ \E w \in WorkersOf(t) :
                           /\ workers[w].pc = "done"
                           /\ task.error = error_msg(workers[w].exc)

C17_Witness ==
    \E t \in DOMAIN tasks :
        /\ tasks[t].status = COMPLETED /\ tasks[t].progress = 100
        /\ tasks[t].completed_at # NoTime
        /\ \E w \in WorkersOf(t) : WorkerActive(w)
        /\ \E c \in CancelsOf(t) : cancels[c].pc = "write"

\* the requests whose execute call has begun, and those inside the invocation
Begun(i) == coros[i].pc \in {"executing", "returned", "raised"}
InFlight == {i \in DOMAIN coros : coros[i].pc = "executing"}

\* the text of an Executor error names a tool
ErrorNames(error, tool_name) == \E k \in DOMAIN error : error[k] = tool_name

\* C18: execute never lets an exception out: no call ends by raising, and
\* whatever was raised while it ran (resolving the catalog on first access,
\* construction, validation, invocation) is returned as a result with
\* success = false and the exception's message in error.
C18_ExecuteNeverPropagates ==
    \A i \in DOMAIN coros :
        /\ coros[i].pc # "raised"
        /\ coros[i].exc # NoException
              => /\ coros[i].pc = "returned"
                 /\ coros[i].result.success = FALSE
                 /\ coros[i].result.error = str_exc(coros[i].exc)

\* C19: an execute call for a tool name that is not in the catalog of the
\* enabled domains (registered by no domain package, or only by one that is
\* not enabled) ends by returning success = false with an error that names
\* the tool; it does not raise, and constructs and invokes nothing.
C19_UnknownToolIsReportedNotRaised ==
    \A i \in DOMAIN coros :
        (Begun(i) /\ batch.requests[i].tool_name \notin EnabledCatalog)
            => /\ coros[i].pc = "returned"
               /\ coros[i].result.success = FALSE
               /\ ErrorNames(coros[i].result.error, batch.requests[i].tool_name)
               /\ coros[i].constructed = 0 /\ coros[i].invoked = 0

\* C20: during execute_batch called with max_concurrent = k >= 1, the number
\* of requests that are inside execute (begun, not finished) never exceeds k.
C20_AtMostKInFlight ==
    batch.max_concurrent >= 1 => Cardinality(InFlight) <= batch.max_concurrent

C20_Witness ==
    /\ batch.state = "running" /\ batch.max_concurrent = MaxConcurrent
    /\ Len(batch.requests) = MaxBatch
    /\ coros[1].pc = "executing" /\ coros[2].pc = "returned" /\ coros[3].pc = "executing"
    /\ Cardinality(InFlight) = batch.max_concurrent

\* C21: what execute_batch returns for a batch of N requests is exactly N
\* results, and results[i] is the result that the execute call of requests[i]
\* produced (it carries that request's tool_name), in whatever order the
\* invocations finished.
C21_ResultsInRequestOrder ==
    batch.state = "returned"
        => /\ Len(batch.results) = Len(batch.requests)
           /\ \A i \in DOMAIN batch.requests :
                 /\ batch.results[i].tool_name = batch.requests[i].tool_name
                 /\ batch.results[i] = coros[i].result
                 /\ coros[i].pc = "returned"

C21_Witness ==
    /\ batch.state = "returned" /\ Len(batch.requests) = MaxBatch
    /\ batch.max_concurrent = 1
    /\ batch.requests[1].tool_name = "no_such_tool"
    /\ batch.requests[2].tool_name = "deep_research"
    /\ batch.requests[3].tool_name = "search_google_reviews"
    /\ batch.results[1].success = FALSE
    /\ batch.results[2].success = TRUE
    /\ batch.results[3].success = FALSE

\* the result a request has is one its own tool name and payload allow
OwnResult(j) ==
    LET req == batch.requests[j]
        res == coros[j].result
    IN /\ res.tool_name = req.tool_name
       /\ res.success <=> (coros[j].invoked = 1 /\ coros[j].exc = NoException)
       /\ res.success => (res.result \in Outputs /\ res.error = NoError)
       /\ req.tool_name \notin executor_tools.names
             <=> res.error = NotFoundError(req.tool_name)
       /\ coros[j].invoked = 1
             => (req.tool_name \in executor_tools.names /\ input_model_ok(req.input_data))
       /\ coros[j].exc # NoException => res.error = str_exc(coros[j].exc)

\* C22: in execute_batch every request is run once and ends with a result
\* of its own: a step of one request (its not-found return, its validation
\* error, its invocation returning or raising) changes nothing of another
\* request except handing a waiting one its slot; a returned result is never
\* changed; and when execute_batch returns every request has returned.
C22_RequestsAreIndependent ==
    [][/\ \A j \in DOMAIN coros \cap DOMAIN coros' :
             /\ coros[j].pc = "returned" => coros'[j] = coros[j]
             /\ coros'[j].pc = "returned" => OwnResult(j)'
             /\ coros'[j].invoked <= 1 /\ coros'[j].constructed <= 1
       /\ \/ DOMAIN coros' = {}
          \/ \E i \in DOMAIN coros' :
                \A j \in (DOMAIN coros \cap DOMAIN coros') \ {i} :
                    coros'[j] # coros[j]
                        => /\ coros[j].pc = "waiting"
                           /\ coros'[j] = [coros[j] EXCEPT !.pc = "admitted"]
       /\ batch'.state = "returned"
             => \A j \in DOMAIN coros' : coros'[j].pc = "returned"]_vars

C22_Witness ==
    /\ batch.state = "returned" /\ Len(batch.requests) = MaxBatch
    /\ batch.max_concurrent = 1
    /\ coros[1].exc.kind = "RuntimeError" /\ batch.results[1].success = FALSE
    /\ batch.results[2].error = NotFoundError("no_such_tool")
    /\ coros[3].invoked = 1 /\ batch.results[3].success = TRUE

\* C23: on the one clock that both measurements read, the total_time_ms of a
\* returned batch is at least the execution_time_ms of each of its results,
\* and it is the time from the call of execute_batch to its return (at the
\* return step exactly that span, so never more than the time elapsed since
\* the clock started), not the sum of the per-request times.
C23_TotalTimeSpansBatch ==
    [][/\ batch'.state = "returned"
             => /\ \A i \in DOMAIN batch'.results :
                      batch'.total_time_ms >= batch'.results[i].execution_time_ms
                /\ batch'.total_time_ms >= 0
                /\ batch'.total_time_ms <= (now' - 1) * 1000
       /\ (batch.state = "running" /\ batch'.state = "returned")
             => batch'.total_time_ms = (now - batch.start_time) * 1000]_vars

C23_Witness ==
    /\ batch.state = "returned" /\ Len(batch.results) >= 2
    /\ batch.results[1].execution_time_ms = 1000
    /\ batch.results[2].execution_time_ms = 1000
    /\ batch.total_time_ms = 1000

\* the registry functions that run discovery first
DiscoveringOps == {"discover_domains", "get_tools", "get_all_domains"}

\* C24: discovery is idempotent: a discover_domains, get_tools or
\* get_all_domains call made once discovery has completed changes neither
\* the registry nor the discovered flag and raises nothing, and such a call
\* made right after another one leaves the catalog and the flag as the first
\* left them.
C24_DiscoveryIdempotent ==
    [][last_call'.op \in DiscoveringOps
          => /\ discovered
                   => /\ UNCHANGED <<TOOL_REGISTRY, discovered, sys_modules, import_outcome>>
                      /\ last_call'.exc = NoException
             /\ last_call.op \in DiscoveringOps
                   => /\ UNCHANGED <<TOOL_REGISTRY, discovered, sys_modules, import_outcome>>
                      /\ last_call'.exc = last_call.exc]_vars

C24_Witness ==
    /\ discovered /\ last_call.op = "get_all_domains"
    /\ last_call.ret = {"deep_research", "web_search"}
    /\ import_outcome["reviews"] = "ImportError"
    /\ DOMAIN TOOL_REGISTRY = last_call.ret

\* C25: when the load of a domain package fails during the first discovery
\* of a process, whatever it raises, the call does not raise, discovery
\* completes, every package that loads is registered with its tools, and
\* the failed package is absent from the registry.
C25_FailedDomainDoesNotAbortDiscovery ==
    [][(/\ last_call'.op \in DiscoveringOps
        /\ import_outcome = NotImported /\ TOOL_REGISTRY = <<>>)
          => /\ last_call'.exc = NoException
             /\ discovered'
             /\ \A d \in Domains :
                   IF import_outcome'[d] = "ok"
                   THEN d \in DOMAIN TOOL_REGISTRY' /\ TOOL_REGISTRY'[d] = DomainModules[d]
                   ELSE d \notin DOMAIN TOOL_REGISTRY']_vars

\* C26: a get_tools(domains) call that returns gives exactly the tools
\* registered under the listed domains that are in the registry (under all
\* registered domains when the argument is omitted), a listed domain that is
\* not registered adding nothing; it has run discovery, and it raises only
\* when the discovery it ran was left by an exception.
C26_LookupReturnsListedDomains ==
    [][last_call'.op = "get_tools"
          => IF last_call'.exc = NoException
             THEN /\ discovered'
                  /\ last_call'.ret =
                        {n \in UNION {TOOL_REGISTRY'[d] : d \in DOMAIN TOOL_REGISTRY'} :
                            \E d \in DOMAIN TOOL_REGISTRY' :
                                /\ n \in TOOL_REGISTRY'[d]
                                /\ last_call'.domains = DomainsOmitted
                                      \/ d \in last_call'.domains}
             ELSE ~discovered /\ ~discovered'
                  /\ \E d \in Domains :
                        import_outcome'[d] \notin {"ok", "ImportError"}]_vars

C26_Witness ==
    /\ last_call.op = "get_tools" /\ last_call.exc = NoException
    /\ last_call.domains = {"reviews", "web_search"}
    /\ "web_search" \notin DOMAIN TOOL_REGISTRY
    /\ "deep_research" \in DOMAIN TOOL_REGISTRY
    /\ last_call.ret = {"search_google_reviews"}

\* a step of a direct save_task_result call that changed the table (the only
\* operation of the store that changes a row and nothing else)
SaveStep ==
    /\ tasks' # tasks
    /\ UNCHANGED <<now, last_create, workers, cancels>>

\* C27: save_task_result changes only result_json and provider of the task
\* named: its status, progress, started_at, completed_at, error and every
\* other column, and every other row, are unchanged, and no row is added; so
\* a save alone never makes a task COMPLETED.
C27_SaveResultChangesOnlyResult ==
    [][SaveStep
          => /\ DOMAIN tasks' = DOMAIN tasks
             /\ \E t \in DOMAIN tasks :
                   /\ \A u \in DOMAIN tasks \ {t} : tasks'[u] = tasks[u]
                   /\ tasks'[t] = [tasks[t] EXCEPT !.result_json = tasks'[t].result_json,
                                                   !.provider = tasks'[t].provider]
                   /\ tasks'[t].result_json # NoResult
                   /\ tasks'[t].status = tasks[t].status
                   /\ tasks'[t].status # COMPLETED]_vars

C27_Witness ==
    /\ DOMAIN tasks = RowIds
    /\ tasks[1].status = CANCELLED /\ tasks[1].result_json # NoResult
    /\ tasks[1].provider = "openai"
    /\ tasks[2].status = PENDING /\ tasks[2].result_json = NoResult

\* the rows a list_tasks call with this status argument selects from
Matching(status) ==
    {t \in DOMAIN tasks : status # NULL => tasks[t].status = status}

\* C28: list_tasks(status, limit) returns at most limit tasks, each the row
\* of a task whose status equals the filter when one is given, no task twice,
\* in order of created_at from newest to oldest, and the tasks returned are
\* the newest limit tasks that match: as many as match up to limit, and no
\* matching task left out is newer than one returned.
C28_ListNewestFirstUpToLimit ==
    [][last_list' # last_list
          => LET call == last_list'
                 ret == call.ret
                 returned == {ret[i].task_id : i \in DOMAIN ret}
             IN /\ Len(ret) <= call.limit
                /\ Len(ret) = IF call.limit < Cardinality(Matching(call.status))
                              THEN call.limit
                              ELSE Cardinality(Matching(call.status))
                /\ \A i \in DOMAIN ret :
                      /\ ret[i].task_id \in Matching(call.status)
                      /\ ret[i] = tasks[ret[i].task_id]
                /\ \A i, j \in DOMAIN ret :
                      i < j => /\ ret[i].task_id # ret[j].task_id
                               /\ ret[i].created_at >= ret[j].created_at
                /\ \A t \in Matching(call.status) \ returned :
                      \A i \in DOMAIN ret :
                          tasks[t].created_at <= ret[i].created_at]_vars

C28_Witness ==
    /\ DOMAIN tasks = RowIds
    /\ \A t \in DOMAIN tasks : tasks[t].status = PENDING
    /\ \E t, u \in DOMAIN tasks : tasks[t].created_at < tasks[u].created_at
    /\ last_list.status = PENDING /\ last_list.limit = 1
    /\ Len(last_list.ret) = 1
    /\ \A t \in DOMAIN tasks : tasks[t].created_at <= last_list.ret[1].created_at

\* the names of the model's tools that contain "search" when lowercased
NamesWithSearch == {"deep_research", "start_deep_research_async", "search_google_reviews"}

C30_AtMostOneWorkerPerTask ==
    \A t \in DOMAIN tasks :
        /\ Cardinality({w \in WorkersOf(t) : workers[w].claimed /\ WorkerActive(w)}) <= 1
        /\ Cardinality({w \in WorkersOf(t) : workers[w].invoked > 0}) <= 1

\* C31: a worker claims only a PENDING task: the step in which a worker makes
\* its first write finds the task PENDING, and a task that is CANCELLED and
\* that no worker has claimed is not made RUNNING.
C31_ClaimsOnlyPending ==
    [][/\ \A w \in WorkerIds :
             (Found(w)' /\ workers'[w].claimed /\ ~workers[w].claimed)
                 => tasks[workers'[w].task_id].status = PENDING
       /\ \A t \in DOMAIN tasks :
             (/\ tasks[t].status = CANCELLED
              /\ \A w \in WorkersOf(t) : ~workers[w].claimed)
                 => tasks'[t].status # RUNNING]_vars

\* the write that a worker at this point of its run makes next, applied to a row
WorkerWrite(w, row) ==
    CASE workers[w].pc = "claim" -> update_row(row, RUNNING, 10, NoError, now)
      [] workers[w].pc = "progress30" -> update_row(row, RUNNING, 30, NoError, now)
      [] workers[w].pc = "progress90" -> update_row(row, RUNNING, 90, NoError, now)
      [] workers[w].pc = "save" ->
            [row EXCEPT !.result_json = model_dump_json(workers[w].result),
                        !.provider = workers[w].result.provider]
      [] workers[w].pc = "complete" -> update_row(row, COMPLETED, 100, NoError, now)
      [] workers[w].pc = "except" ->
            update_row(row, FAILED, NoProgress, error_msg(workers[w].exc), now)
      [] OTHER -> row

SameRun(w) ==
    /\ workers[w].pc = "done" /\ Found(w) /\ RanAlone(w)
    /\ batch.state \in {"returned", "raised"}
    /\ batch.requests[1].tool_name = workers[w].tool_name
    /\ json_dumps(batch.requests[1].input_data) = tasks[workers[w].task_id].input_json
    /\ coros[1].exc.kind # "TypeError"
    /\ (workers[w].exc.kind = "RuntimeError") <=> (coros[1].exc.kind = "RuntimeError")

\* C33: for every tool name and payload, the run of a worker on a task with
\* them (no cancel_task) ends COMPLETED exactly when execute on the same tool
\* and payload returns success = True, and FAILED exactly when execute
\* returns success = False; in both the tool is invoked at most once.
C33_WorkerMatchesExecutor ==
    \A w \in WorkerIds :
        SameRun(w)
            => /\ StatusOf(workers[w].task_id) = COMPLETED
                     <=> (batch.state = "returned" /\ batch.results[1].success)
               /\ StatusOf(workers[w].task_id) = FAILED
                     <=> (batch.state = "returned" /\ ~batch.results[1].success)
               /\ workers[w].invoked <= 1 /\ coros[1].invoked <= 1

\* C34: in execute_batch the requests are admitted in input order: a request
\* has entered execute (and so its invocation, if it has one, has started)
\* only if every request before it in the list has entered execute too.
C34_AdmittedInInputOrder ==
    \A i, j \in DOMAIN coros : (i < j /\ Begun(j)) => Begun(i)

C34_Witness ==
    /\ batch.state = "running" /\ batch.max_concurrent = 1
    /\ Len(batch.requests) = MaxBatch
    /\ coros[1].pc = "returned" /\ coros[1].invoked = 1
    /\ coros[2].pc = "executing"
    /\ \A i \in 3..MaxBatch : coros[i].pc = "waiting"
    /\ batch.waiters = [i \in 1..(MaxBatch - 2) |-> i + 2]

\* the event loop runs every task that is ready, and every tool invocation
\* returns or raises in the end
ExecFairSpec ==
    /\ ExecSpec
    /\ WF_vars(LimitedExecuteEnter) /\ WF_vars(LimitedExecuteResume)
    /\ WF_vars(ExecuteFinish)
    /\ WF_vars(execute_batch_return) /\ WF_vars(execute_batch_raise)

\* C35: when every tool invocation ends, every request of a batch is
\* admitted and its execute call made and ended, no request stays in the
\* semaphore's queue for ever, and execute_batch returns in the end.
C35_BatchTerminates ==
    (batch.state = "running")
        ~> (/\ batch.state = "returned"
            /\ batch.waiters = <<>>
            /\ \A i \in DOMAIN coros : coros[i].pc = "returned")

\* C36: execute_batch called with max_concurrent = 0 on a non-empty batch
\* runs with the configured limit instead of zero slots (no request ever
\* waits for a slot) and completes with one result per request.
C36_ZeroLimitUsesDefault ==
    /\ []((batch.state = "running" /\ batch.max_concurrent = 0)
             => /\ batch.semaphore + Cardinality(InFlight) = max_concurrent_requests
                /\ batch.waiters = <<>>
                /\ \A i \in DOMAIN coros : coros[i].pc \notin {"waiting", "admitted"})
    /\ (batch.state = "running" /\ batch.max_concurrent = 0 /\ batch.requests # <<>>)
          ~> (batch.state = "returned" /\ Len(batch.results) = Len(batch.requests))

\* the Executor's answer to request i is "not found"
NotFound(i) ==
    /\ coros[i].pc = "returned"
    /\ coros[i].result.error = NotFoundError(batch.requests[i].tool_name)

\* C37: an Executor resolves its catalog once: after the first access the
\* cached catalog stays as it is until a new Executor is made, whatever is
\* registered or reset in the registry meanwhile; every execute call of a
\* batch finds a tool exactly when the cached catalog holds it, and
\* search_parallel takes its search tools from the cached catalog; a new
\* Executor resolves the catalog from the registry as it is then.
C37_CatalogResolvedOnce ==
    [][/\ executor_tools.resolved
             => /\ executor_tools' = executor_tools \/ executor_tools' = NoTools
                /\ \A i \in DOMAIN coros :
                      (~Begun(i) /\ i \in DOMAIN coros' /\ Begun(i)')
                          => (NotFound(i)' <=>
                                 batch.requests[i].tool_name \notin executor_tools.names)
                /\ (last_search' # last_search /\ batch'.state = "running")
                      => {batch'.requests[i].tool_name : i \in DOMAIN batch'.requests}
                            = executor_tools.names \cap NamesWithSearch
       /\ (~executor_tools.resolved /\ executor_tools'.resolved)
             => /\ discovered'
                /\ executor_tools'.names = get_tools(TOOL_REGISTRY', EnabledDomains)]_vars

\* the registry has changed since the Executor resolved its catalog, and the
\* Executor has answered from the catalog it holds
C37_Witness ==
    /\ executor_tools.resolved
    /\ "search_google_reviews" \notin executor_tools.names
    /\ "search_google_reviews" \in get_tools(TOOL_REGISTRY, EnabledDomains)
    /\ batch.state = "returned" /\ Len(batch.requests) = 1
    /\ batch.requests[1].tool_name = "search_google_reviews"
    /\ batch.results[1].success = FALSE
    /\ last_call.op = "register_tool"

\* C38: tool names are unique over the whole registry: after any sequence of
\* register_tool calls no name is registered under two different domains
\* (so the merge of get_tools has one entry per registered tool).
C38_ToolNamesGloballyUnique ==
    \A d, e \in DOMAIN TOOL_REGISTRY :
        d # e => TOOL_REGISTRY[d] \cap TOOL_REGISTRY[e] = {}

\* C39: the get_tools call that follows a reset_registry re-runs discovery
\* and returns the catalog that the first discovery of the process
\* produced: the tools of every domain package that loads.
C39_ResetThenLookupRestoresCatalog ==
    [][(/\ last_call.op = "reset_registry"
        /\ last_call'.op = "get_tools" /\ last_call'.domains = DomainsOmitted
        /\ last_call'.exc = NoException)
          => /\ discovered'
             /\ last_call'.ret =
                   UNION {DomainModules[d] : d \in {e \in Domains : import_outcome'[e] = "ok"}}]_vars

\* C40: in every reachable state a task run by at most one worker carries
\* an error only if its status is FAILED: a PENDING, RUNNING, COMPLETED or
\* CANCELLED task has no error, whatever the interleaving of the worker's
\* writes with cancel_task calls.
C40_ErrorOnlyWhenFailed ==
    \A t \in DOMAIN tasks :
        (Cardinality(WorkersOf(t)) <= 1 /\ tasks[t].error # NoError)
            => tasks[t].status = FAILED

====
